---- MODULE Spec2Model ----
(***************************************************************************)
(* State-machine model of the flaskr blog application:                     *)
(*   src/flaskr/auth.py  register, login, logout, the login_required gate, *)
(*                       load_logged_in_user and the avatar handlers       *)
(*   src/flaskr/blog.py  get_post, create, update, delete, profile,        *)
(*                       edit_profile, user_profile, post_detail,          *)
(*                       check_nickname                                    *)
(* Text is a sequence of one-character strings, so that strip(), lower()   *)
(* int(), secure_filename() and splitext() are computed and not assumed.    *)
(* A request is one action, except where the handler reads and then reads  *)
(* or writes shared state in separate statements or system calls           *)
(* (register, update, delete, the avatar handlers): those are split at the *)
(* places where another request can run in between.                        *)
(***************************************************************************)
EXTENDS Integers, Sequences, FiniteSets, TLC

VARIABLES
    users,      \* table users: set of rows
    posts,      \* table user_works: set of rows
    session,    \* per browser: session["user_id"], NoUser when the key is absent
    files,      \* static/avatars: function from the existing paths to content
    pc,         \* per browser: where its request in flight stands
    loc,        \* per browser: the locals of its request in flight
    resp        \* the last response sent: [sid, op, out]

vars == <<users, posts, session, files, pc, loc, resp>>

-----------------------------------------------------------------------------
(* Bounds *)

MaxUsers == 2
MaxPosts == 2

Sessions == {"s1", "s2"}

-----------------------------------------------------------------------------
(* Python values *)

None == [none |-> TRUE]
NoUser == 0
Null == <<"NULL">>

\* the characters str.isspace() accepts, among those of one byte: space,
\* \t \n \r \f, VT, FS, GS, RS, US, NEL and the no-break space
Whitespace == {" ", "\t", "\n", "\r", "\f", "", "", "", "", "", "", " "}

RECURSIVE lstrip(_)
lstrip(s) ==
    IF s # <<>> /\ Head(s) \in Whitespace THEN lstrip(Tail(s)) ELSE s

RECURSIVE rstrip(_)
rstrip(s) ==
    IF s # <<>> /\ s[Len(s)] \in Whitespace
    THEN rstrip(SubSeq(s, 1, Len(s) - 1))
    ELSE s

strip(s) == lstrip(rstrip(s))

IndexOf(c, seq) == CHOOSE i \in 1..Len(seq) : seq[i] = c
Occurs(c, seq) == \E i \in 1..Len(seq) : seq[i] = c

UpperLetters ==
    << "A", "B", "C", "D", "E", "F", "G", "H", "I", "J", "K", "L", "M",
       "N", "O", "P", "Q", "R", "S", "T", "U", "V", "W", "X", "Y", "Z",
       "À", "Á", "Â", "Ã", "Ä", "Å", "Æ", "Ç", "È", "É", "Ê", "Ë", "Ì",
       "Í", "Î", "Ï", "Ð", "Ñ", "Ò", "Ó", "Ô", "Õ", "Ö", "Ø", "Ù", "Ú",
       "Û", "Ü", "Ý", "Þ" >>

LowerLetters ==
    << "a", "b", "c", "d", "e", "f", "g", "h", "i", "j", "k", "l", "m",
       "n", "o", "p", "q", "r", "s", "t", "u", "v", "w", "x", "y", "z",
       "à", "á", "â", "ã", "ä", "å", "æ", "ç", "è", "é", "ê", "ë", "ì",
       "í", "î", "ï", "ð", "ñ", "ò", "ó", "ô", "õ", "ö", "ø", "ù", "ú",
       "û", "ü", "ý", "þ" >>

\* str.lower(), one character: every cased letter to its lower-case form
LowerChar(c) ==
    IF Occurs(c, UpperLetters) THEN LowerLetters[IndexOf(c, UpperLetters)] ELSE c

lower(s) == [i \in 1..Len(s) |-> LowerChar(s[i])]

generate_password_hash(password) == <<"hash", password>>
check_password_hash(pwhash, password) == pwhash[1] = "hash" /\ pwhash[2] = password

Max(S) == CHOOSE m \in S : \A n \in S : n <= m

fetchone(rows) == IF rows = {} THEN None ELSE CHOOSE r \in rows : TRUE

-----------------------------------------------------------------------------
(* The store.  The schema is not part of the sources: users(user_id PK,    *)
(* username UNIQUE, password, bio, contact_info) and user_works(id PK,     *)
(* title, body, author_id) are taken from the specification's section 6.   *)

UserRow(user_id, username, password, bio, contact_info) ==
    [user_id |-> user_id, username |-> username, password |-> password,
     bio |-> bio, contact_info |-> contact_info]

PostRow(id, title, body, author_id) ==
    [id |-> id, title |-> title, body |-> body, author_id |-> author_id]

\* the uniqueness constraint dropped from the table
IntegrityError_none(rows) == FALSE

\* the store refuses a write that leaves two rows with one username
IntegrityError(rows) ==
    \E r1 \in rows, r2 \in rows : r1 # r2 /\ r1.username = r2.username

next_user_id == IF users = {} THEN 1 ELSE Max({r.user_id : r \in users}) + 1

\* the id the store gives the next post: one more than the largest id in the
\* table, 1 in an empty table
next_post_id == IF posts = {} THEN 1 ELSE Max({p.id : p \in posts}) + 1

Respond(s, op, out) == resp' = [sid |-> s, op |-> op, out |-> out]

Idle(s) == pc[s] = "idle"

EndRequest(s) ==
    /\ pc' = [pc EXCEPT ![s] = "idle"]
    /\ loc' = [loc EXCEPT ![s] = None]

-----------------------------------------------------------------------------
(* auth.py: identity and gate *)

\* the row of the first user whatever the session holds (WHERE clause lost)
load_logged_in_user_any(s) == fetchone({r \in users : r.user_id = 1})

load_logged_in_user(s) ==
    LET user_id == session[s]
    IN  IF user_id = NoUser
        THEN None
        ELSE fetchone({r \in users : r.user_id = user_id})

login_required(g_user) == g_user # None

\* the gate's answer to an anonymous request
Challenge(s, op) ==
    /\ Respond(s, op, "login_redirect")
    /\ UNCHANGED <<users, posts, session, files, pc, loc>>

-----------------------------------------------------------------------------
(* auth.py: register, login, logout *)

BeginRegister(s, method, username, password) ==
    /\ Idle(s)
    /\ IF method = "GET"
       THEN /\ Respond(s, "register", "render")
            /\ UNCHANGED <<pc, loc>>
       ELSE IF username = <<>>
       THEN /\ Respond(s, "register", "flash_username_required")
            /\ UNCHANGED <<pc, loc>>
       ELSE IF password = <<>>
       THEN /\ Respond(s, "register", "flash_password_required")
            /\ UNCHANGED <<pc, loc>>
       ELSE IF fetchone({r \in users : r.username = username}) # None
       THEN /\ Respond(s, "register", "flash_username_exists")
            /\ UNCHANGED <<pc, loc>>
       ELSE /\ Cardinality(users) + Cardinality({t \in Sessions : pc[t] = "register_insert"})
                  < MaxUsers
            /\ pc' = [pc EXCEPT ![s] = "register_insert"]
            /\ loc' = [loc EXCEPT ![s] = [username |-> username, password |-> password]]
            /\ UNCHANGED resp
    /\ UNCHANGED <<users, posts, session, files>>

\* the insert without the except clause: the constraint violation escapes
RegisterInsert_uncaught(s) ==
    /\ pc[s] = "register_insert"
    /\ LET row == UserRow(next_user_id, loc[s].username,
                          generate_password_hash(loc[s].password), Null, Null)
       IN  IF IntegrityError(users \cup {row})
           THEN /\ users' = users
                /\ Respond(s, "register", "fault")
           ELSE /\ users' = users \cup {row}
                /\ Respond(s, "register", "redirect")
    /\ pc' = [pc EXCEPT ![s] = "idle"]
    /\ loc' = [loc EXCEPT ![s] = None]
    /\ UNCHANGED <<posts, session, files>>

RegisterInsert(s) ==
    /\ pc[s] = "register_insert"
    /\ LET row == UserRow(next_user_id, loc[s].username,
                          generate_password_hash(loc[s].password), Null, Null)
       IN  IF IntegrityError(users \cup {row})
           THEN /\ users' = users
                /\ Respond(s, "register", "flash_already_registered")
           ELSE /\ users' = users \cup {row}
                /\ Respond(s, "register", "redirect")
    /\ pc' = [pc EXCEPT ![s] = "idle"]
    /\ loc' = [loc EXCEPT ![s] = None]
    /\ UNCHANGED <<posts, session, files>>

Login(s, method, username, password) ==
    /\ Idle(s)
    /\ IF method = "GET"
       THEN /\ Respond(s, "login", "render")
            /\ UNCHANGED session
       ELSE LET user == fetchone({r \in users : r.username = username})
            IN  IF user = None
                THEN /\ Respond(s, "login", "flash_incorrect_username")
                     /\ UNCHANGED session
                ELSE IF ~check_password_hash(user.password, password)
                THEN /\ Respond(s, "login", "flash_incorrect_password")
                     /\ UNCHANGED session
                ELSE /\ session' = [session EXCEPT ![s] = user.user_id]
                     /\ Respond(s, "login", "redirect")
    /\ UNCHANGED <<users, posts, files, pc, loc>>

\* a logout that leaves the session alone
Logout_keeping(s) ==
    /\ Idle(s)
    /\ Respond(s, "logout", "redirect")
    /\ UNCHANGED <<users, posts, session, files, pc, loc>>

Logout(s) ==
    /\ Idle(s)
    /\ session' = [session EXCEPT ![s] = NoUser]
    /\ Respond(s, "logout", "redirect")
    /\ UNCHANGED <<users, posts, files, pc, loc>>
-----------------------------------------------------------------------------
(* blog.py *)

Abort(code) == [abort |-> code]
IsAbort(r) == "abort" \in DOMAIN r

\* get_post without the comparison of the author with the user
get_post_unchecked(id, check_author, g_user) ==
    LET post == fetchone({p \in posts : p.id = id
                            /\ \E u \in users : u.user_id = p.author_id})
    IN  IF post = None THEN Abort("404") ELSE post

get_post(id, check_author, g_user) ==
    LET post == fetchone({p \in posts : p.id = id
                            /\ \E u \in users : u.user_id = p.author_id})
    IN  IF post = None
        THEN Abort("404")
        ELSE IF check_author /\ post.author_id # g_user.user_id
        THEN Abort("403")
        ELSE post

Create(s, method, title, body) ==
    /\ Idle(s)
    /\ LET g_user == load_logged_in_user(s)
       IN  IF ~login_required(g_user)
           THEN Challenge(s, "create")
           ELSE IF method = "GET"
           THEN /\ Respond(s, "create", "render")
                /\ UNCHANGED <<users, posts, session, files, pc, loc>>
           ELSE IF title = <<>>
           THEN /\ Respond(s, "create", "flash_title_required")
                /\ UNCHANGED <<users, posts, session, files, pc, loc>>
           ELSE /\ next_post_id <= MaxPosts
                /\ posts' = posts \cup {PostRow(next_post_id, title, body, g_user.user_id)}
                /\ Respond(s, "create", "redirect")
                /\ UNCHANGED <<users, session, files, pc, loc>>

Update(s, method, id, title, body) ==
    /\ Idle(s)
    /\ LET g_user == load_logged_in_user(s)
       IN  IF ~login_required(g_user)
           THEN Challenge(s, "update")
           ELSE LET post == get_post(id, TRUE, g_user)
                IN  IF IsAbort(post)
                    THEN /\ Respond(s, "update", post.abort)
                         /\ UNCHANGED <<users, posts, session, files, pc, loc>>
                    ELSE IF method = "GET"
                    THEN /\ Respond(s, "update", "render")
                         /\ UNCHANGED <<users, posts, session, files, pc, loc>>
                    ELSE IF title = <<>>
                    THEN /\ Respond(s, "update", "flash_title_required")
                         /\ UNCHANGED <<users, posts, session, files, pc, loc>>
                    ELSE /\ pc' = [pc EXCEPT ![s] = "update_write"]
                         /\ loc' = [loc EXCEPT ![s] =
                               [id |-> id, title |-> title, body |-> body]]
                         /\ UNCHANGED <<users, posts, session, files, resp>>

\* UPDATE user_works SET title = ?, body = ? WHERE id = ?, and the commit
UpdateWrite(s) ==
    /\ pc[s] = "update_write"
    /\ posts' = {IF p.id = loc[s].id
                 THEN [p EXCEPT !.title = loc[s].title, !.body = loc[s].body]
                 ELSE p : p \in posts}
    /\ Respond(s, "update", "redirect")
    /\ EndRequest(s)
    /\ UNCHANGED <<users, session, files>>

Delete(s, id) ==
    /\ Idle(s)
    /\ LET g_user == load_logged_in_user(s)
       IN  IF ~login_required(g_user)
           THEN Challenge(s, "delete")
           ELSE LET post == get_post(id, TRUE, g_user)
                IN  IF IsAbort(post)
                    THEN /\ Respond(s, "delete", post.abort)
                         /\ UNCHANGED <<users, posts, session, files, pc, loc>>
                    ELSE /\ pc' = [pc EXCEPT ![s] = "delete_write"]
                         /\ loc' = [loc EXCEPT ![s] = [id |-> id]]
                         /\ UNCHANGED <<users, posts, session, files, resp>>

\* DELETE FROM user_works WHERE id = ?, and the commit
DeleteWrite(s) ==
    /\ pc[s] = "delete_write"
    /\ posts' = {p \in posts : p.id # loc[s].id}
    /\ Respond(s, "delete", "redirect")
    /\ EndRequest(s)
    /\ UNCHANGED <<users, session, files>>

Profile(s) ==
    /\ Idle(s)
    /\ LET g_user == load_logged_in_user(s)
       IN  IF ~login_required(g_user)
           THEN Challenge(s, "profile")
           ELSE /\ Respond(s, "profile", "redirect")
                /\ UNCHANGED <<users, posts, session, files, pc, loc>>

EditProfile(s, method, nickname_in, bio_in, contact_in) ==
    /\ Idle(s)
    /\ LET g_user == load_logged_in_user(s)
       IN  IF ~login_required(g_user)
           THEN Challenge(s, "edit_profile")
           ELSE IF method = "GET"
           THEN /\ Respond(s, "edit_profile", "render")
                /\ UNCHANGED <<users, posts, session, files, pc, loc>>
           ELSE LET nickname == strip(nickname_in)
                    bio == strip(bio_in)
                    contact == strip(contact_in)
                    updated == {IF r.user_id = g_user.user_id
                                THEN [r EXCEPT !.username = nickname, !.bio = bio,
                                               !.contact_info = contact]
                                ELSE r : r \in users}
                IN  IF IntegrityError(updated)
                    THEN /\ Respond(s, "edit_profile", "fault")
                         /\ UNCHANGED <<users, posts, session, files, pc, loc>>
                    ELSE /\ users' = updated
                         /\ Respond(s, "edit_profile", "redirect")
                         /\ UNCHANGED <<posts, session, files, pc, loc>>

UserProfile(s, username) ==
    /\ Idle(s)
    /\ LET user == fetchone({r \in users : r.username = username})
       IN  IF user = None
           THEN Respond(s, "user_profile", "404")
           ELSE Respond(s, "user_profile", "render")
    /\ UNCHANGED <<users, posts, session, files, pc, loc>>

PostDetail(s, id) ==
    /\ Idle(s)
    /\ LET post == get_post(id, FALSE, load_logged_in_user(s))
       IN  IF IsAbort(post)
           THEN Respond(s, "post_detail", post.abort)
           ELSE Respond(s, "post_detail", "render")
    /\ UNCHANGED <<users, posts, session, files, pc, loc>>

MaxNicknameLen == 20

CheckNickname(s, nickname_in) ==
    /\ Idle(s)
    /\ LET g_user == load_logged_in_user(s)
       IN  IF ~login_required(g_user)
           THEN Challenge(s, "check_nickname")
           ELSE LET nickname == strip(nickname_in)
                IN  /\ IF Len(nickname) < 1 \/ Len(nickname) > MaxNicknameLen
                       THEN Respond(s, "check_nickname", "json_unavailable")
                       ELSE IF fetchone({r \in users : r.username = nickname
                                           /\ r.user_id # g_user.user_id}) # None
                       THEN Respond(s, "check_nickname", "json_unavailable")
                       ELSE Respond(s, "check_nickname", "json_available")
                    /\ UNCHANGED <<users, posts, session, files, pc, loc>>

-----------------------------------------------------------------------------
(* auth.py: avatar files.  A path is <<user_id, ext>>; files maps each      *)
(* existing path to [data, contended]: data is a complete image or Partial  *)
(* (a file opened for writing and not yet written out, or written by two    *)
(* writers at once), contended tells that two writers hold the file open.   *)

PNG == <<".", "p", "n", "g">>
JPG == <<".", "j", "p", "g">>
JPEG == <<".", "j", "p", "e", "g">>

EXT_ORDER == <<PNG, JPG, JPEG>>

MaxAvatarBytes == 2 * 1024 * 1024

Partial == [partial |-> TRUE]
Bad == [bad |-> TRUE]
Image(mode) == [mode |-> mode, cropped |-> FALSE]

\* werkzeug secure_filename (posix), in its four passes
Digits == {"0", "1", "2", "3", "4", "5", "6", "7", "8", "9"}
AsciiLetters == {UpperLetters[i] : i \in 1..26} \cup {LowerLetters[i] : i \in 1..26}
FilenameSafe == AsciiLetters \cup Digits \cup {"_", ".", "-"}
\* the characters of one byte outside ASCII that NFKD and
\* encode("ascii", "ignore") leave something of, and what they leave
Latin1Kept ==
    << " ", "¨", "ª", "¯", "²", "³", "´", "¸", "¹", "º", "¼", "½", "¾",
       "À", "Á", "Â", "Ã", "Ä", "Å", "Ç", "È", "É", "Ê", "Ë", "Ì", "Í",
       "Î", "Ï", "Ñ", "Ò", "Ó", "Ô", "Õ", "Ö", "Ù", "Ú", "Û", "Ü", "Ý",
       "à", "á", "â", "ã", "ä", "å", "ç", "è", "é", "ê", "ë", "ì", "í",
       "î", "ï", "ñ", "ò", "ó", "ô", "õ", "ö", "ù", "ú", "û", "ü", "ý",
       "ÿ" >>

Latin1Ascii ==
    << <<" ">>, <<" ">>, <<"a">>, <<" ">>, <<"2">>, <<"3">>, <<" ">>,
       <<" ">>, <<"1">>, <<"o">>, <<"1", "4">>, <<"1", "2">>,
       <<"3", "4">>, <<"A">>, <<"A">>, <<"A">>, <<"A">>, <<"A">>,
       <<"A">>, <<"C">>, <<"E">>, <<"E">>, <<"E">>, <<"E">>, <<"I">>,
       <<"I">>, <<"I">>, <<"I">>, <<"N">>, <<"O">>, <<"O">>, <<"O">>,
       <<"O">>, <<"O">>, <<"U">>, <<"U">>, <<"U">>, <<"U">>, <<"Y">>,
       <<"a">>, <<"a">>, <<"a">>, <<"a">>, <<"a">>, <<"a">>, <<"c">>,
       <<"e">>, <<"e">>, <<"e">>, <<"e">>, <<"i">>, <<"i">>, <<"i">>,
       <<"i">>, <<"n">>, <<"o">>, <<"o">>, <<"o">>, <<"o">>, <<"o">>,
       <<"u">>, <<"u">>, <<"u">>, <<"u">>, <<"y">>, <<"y">> >>

\* the characters of one byte outside ASCII that they leave nothing of
Latin1Dropped ==
    { "", "", "", "", "", "", "", "", "", "", "", "", "",
      "", "", "", "", "", "", "", "", "", "", "", "", "",
      "", "", "", "", "", "", "¡", "¢", "£", "¤", "¥", "¦", "§",
      "©", "«", "¬", "­", "®", "°", "±", "µ", "¶", "·", "»", "¿", "Æ",
      "Ð", "×", "Ø", "Þ", "ß", "æ", "ð", "÷", "ø", "þ" }

\* unicodedata.normalize("NFKD", ...) and encode("ascii", "ignore"), then
\* os.sep replaced by a space
RECURSIVE to_ascii(_)
to_ascii(s) ==
    IF s = <<>>
    THEN <<>>
    ELSE LET c == Head(s)
             d == IF c = "/" THEN <<" ">>
                  ELSE IF Occurs(c, Latin1Kept)
                  THEN Latin1Ascii[IndexOf(c, Latin1Kept)]
                  ELSE IF c \in Latin1Dropped
                  THEN <<>>
                  ELSE <<c>>
         IN  d \o to_ascii(Tail(s))

\* the length of the first word of s, s starting with a character of a word
RECURSIVE word_len(_)
word_len(s) ==
    IF s = <<>> \/ Head(s) \in Whitespace THEN 0 ELSE 1 + word_len(Tail(s))

\* "_".join(s.split())
RECURSIVE join_split(_)
join_split(s) ==
    LET t == lstrip(s)
    IN  IF t = <<>>
        THEN <<>>
        ELSE LET n == word_len(t)
                 rest == lstrip(SubSeq(t, n + 1, Len(t)))
             IN  IF rest = <<>>
                 THEN SubSeq(t, 1, n)
                 ELSE SubSeq(t, 1, n) \o <<"_">> \o join_split(rest)

\* re.sub("[^A-Za-z0-9_.-]", "", s)
RECURSIVE ascii_strip(_)
ascii_strip(s) ==
    IF s = <<>>
    THEN <<>>
    ELSE (IF Head(s) \in FilenameSafe THEN <<Head(s)>> ELSE <<>>) \o ascii_strip(Tail(s))

\* str.strip("._")
RECURSIVE lstrip_dots(_)
lstrip_dots(s) ==
    IF s # <<>> /\ Head(s) \in {".", "_"} THEN lstrip_dots(Tail(s)) ELSE s

RECURSIVE rstrip_dots(_)
rstrip_dots(s) ==
    IF s # <<>> /\ s[Len(s)] \in {".", "_"}
    THEN rstrip_dots(SubSeq(s, 1, Len(s) - 1))
    ELSE s

secure_filename(s) == lstrip_dots(rstrip_dots(ascii_strip(join_split(to_ascii(s)))))

\* os.path.splitext(p)[1]: from the last dot of the last path component on,
\* unless only dots precede it in that component
splitext_ext(p) ==
    LET seps == {i \in 1..Len(p) : p[i] = "/"}
        sepIndex == IF seps = {} THEN 0 ELSE Max(seps)
        dots == {i \in 1..Len(p) : p[i] = "."}
    IN  IF dots = {} \/ Max(dots) < sepIndex
        THEN <<>>
        ELSE LET dotIndex == Max(dots)
             IN  IF \A j \in (sepIndex + 1)..(dotIndex - 1) : p[j] = "."
                 THEN <<>>
                 ELSE SubSeq(p, dotIndex, Len(p))

Missing == <<"MISSING">>

\* the most digits int() converts (sys.int_info.default_max_str_digits)
MaxStrDigits == 4300

\* the text int() accepts: an optional sign, then digits with single
\* underscores between them, at most MaxStrDigits digits in all
IsIntLiteral(t) ==
    LET u == IF t # <<>> /\ Head(t) \in {"+", "-"} THEN Tail(t) ELSE t
    IN  /\ u # <<>>
        /\ u[1] \in Digits
        /\ u[Len(u)] \in Digits
        /\ \A i \in 1..Len(u) : u[i] \in Digits \cup {"_"}
        /\ \A i \in 1..(Len(u) - 1) : ~(u[i] = "_" /\ u[i + 1] = "_")
        /\ Cardinality({i \in 1..Len(u) : u[i] \in Digits}) <= MaxStrDigits

DigitChars == <<"0", "1", "2", "3", "4", "5", "6", "7", "8", "9">>

\* the value of digits and underscores, read after the value acc
RECURSIVE digits_value(_, _)
digits_value(u, acc) ==
    IF u = <<>>
    THEN acc
    ELSE IF Head(u) = "_"
    THEN digits_value(Tail(u), acc)
    ELSE digits_value(Tail(u), 10 * acc + (IndexOf(Head(u), DigitChars) - 1))

\* the whitespace int() skips around the literal: that of str.strip() without
\* the separators FS, GS, RS, US
IntWhitespace == Whitespace \ {"", "", "", ""}

RECURSIVE int_lstrip(_)
int_lstrip(s) ==
    IF s # <<>> /\ Head(s) \in IntWhitespace THEN int_lstrip(Tail(s)) ELSE s

RECURSIVE int_rstrip(_)
int_rstrip(s) ==
    IF s # <<>> /\ s[Len(s)] \in IntWhitespace
    THEN int_rstrip(SubSeq(s, 1, Len(s) - 1))
    ELSE s

int_strip(s) == int_lstrip(int_rstrip(s))

\* int(request.form.get(key, default)): TRUE when int() raises ValueError
int_raises(v) == v # Missing /\ ~IsIntLiteral(int_strip(v))

\* int(request.form.get(key, default)) when it does not raise
int_value(v, default) ==
    IF v = Missing
    THEN default
    ELSE LET t == int_strip(v)
         IN  IF Head(t) = "-"
             THEN 0 - digits_value(Tail(t), 0)
             ELSE IF Head(t) = "+"
             THEN digits_value(Tail(t), 0)
             ELSE digits_value(t, 0)

exists(path) == path \in DOMAIN files

Writing(t) == pc[t] \in {"upload_write", "crop_write"}

\* the writers whose open file is the one now at path
WritersOf(path) == {t \in Sessions : Writing(t) /\ loc[t].path = path /\ loc[t].linked}

\* builtins.open(path, "w+b"): create the file, or truncate the one there
open_wb(path) ==
    [p \in DOMAIN files \cup {path} |->
        IF p = path
        THEN [data |-> Partial, contended |-> WritersOf(path) # {}]
        ELSE files[p]]

\* os.remove(path), and what it does to the writers of that file
remove(path) == [p \in DOMAIN files \ {path} |-> files[p]]

unlink_writers(path, s) ==
    [t \in Sessions |->
        IF t # s /\ Writing(t) /\ loc[t].path = path
        THEN [loc[t] EXCEPT !.linked = FALSE]
        ELSE loc[t]]

\* the file written out and closed by s (the last step of Image.save)
WriteOut(s) ==
    LET path == loc[s].path
    IN  IF loc[s].linked /\ exists(path)
        THEN \E data \in (IF files[path].contended THEN {loc[s].img, Partial}
                          ELSE {loc[s].img}) :
                 files' = [files EXCEPT ![path] =
                              [data |-> data,
                               contended |-> @.contended /\ WritersOf(path) \ {s} # {}]]
        ELSE files' = files

\* the modes Pillow's JPEG and PNG writers take
JPEG_MODES == {"1", "L", "RGB", "RGBX", "CMYK", "YCbCr"}
PNG_MODES == {"1", "L", "LA", "I", "I;16", "P", "RGB", "RGBA"}

\* the encoder's answer to (extension, mode): JPEG has no alpha channel and
\* no palette
encoder_refuses(ext, img) ==
    IF ext = PNG THEN img.mode \notin PNG_MODES ELSE img.mode \notin JPEG_MODES

\* img.save(path, quality=90) up to the opening of the file: Image.save
\* opens (truncates) the file and calls the encoder, which raises for a mode
\* it cannot write and for an image without pixels; save then removes the
\* file if it had created it (or leaves it, by version).  What raises is
\* caught by the handler's except clause.
SaveOpen(s, op, writing) ==
    LET path == loc[s].path
    IN  IF loc[s].empty \/ encoder_refuses(path[2], loc[s].img)
        THEN /\ IF exists(path)
                THEN files' = open_wb(path)
                ELSE \E kept \in BOOLEAN :
                         files' = IF kept THEN open_wb(path) ELSE files
             /\ Respond(s, op, "json_fail_exception")
             /\ EndRequest(s)
        ELSE /\ files' = open_wb(path)
             /\ pc' = [pc EXCEPT ![s] = writing]
             /\ UNCHANGED <<loc, resp>>

UploadAvatar(s, file) ==
    /\ Idle(s)
    /\ LET g_user == load_logged_in_user(s)
       IN  IF ~login_required(g_user)
           THEN Challenge(s, "upload_avatar")
           ELSE IF ~file.present \/ file.filename = <<>>
           THEN /\ Respond(s, "upload_avatar", "json_fail_nofile")
                /\ UNCHANGED <<users, posts, session, files, pc, loc>>
           ELSE LET filename == lower(secure_filename(file.filename))
                    file_ext == splitext_ext(filename)
                IN  IF file_ext \notin {JPG, JPEG, PNG}
                    THEN /\ Respond(s, "upload_avatar", "json_fail_format")
                         /\ UNCHANGED <<users, posts, session, files, pc, loc>>
                    ELSE IF file.content_length # 0 /\ file.content_length > MaxAvatarBytes
                    THEN /\ Respond(s, "upload_avatar", "json_fail_size")
                         /\ UNCHANGED <<users, posts, session, files, pc, loc>>
                    ELSE IF file.image = Bad
                    THEN /\ Respond(s, "upload_avatar", "json_fail_exception")
                         /\ UNCHANGED <<users, posts, session, files, pc, loc>>
                    ELSE /\ pc' = [pc EXCEPT ![s] = "upload_open"]
                         /\ loc' = [loc EXCEPT ![s] =
                               [path |-> <<g_user.user_id, file_ext>>,
                                img |-> IF file.image.mode \in {"RGBA", "P"} /\ file_ext = JPG
                                        THEN [file.image EXCEPT !.mode = "RGB"]
                                        ELSE file.image,
                                empty |-> FALSE,
                                linked |-> TRUE]]
                         /\ UNCHANGED <<users, posts, session, files, resp>>

UploadOpen(s) ==
    /\ pc[s] = "upload_open"
    /\ SaveOpen(s, "upload_avatar", "upload_write")
    /\ UNCHANGED <<users, posts, session>>

UploadWrite(s) ==
    /\ pc[s] = "upload_write"
    /\ WriteOut(s)
    /\ Respond(s, "upload_avatar", "json_ok")
    /\ EndRequest(s)
    /\ UNCHANGED <<users, posts, session>>

DefaultCropSize == 200

CropAvatar(s, x, y, width, height) ==
    /\ Idle(s)
    /\ LET g_user == load_logged_in_user(s)
       IN  IF ~login_required(g_user)
           THEN Challenge(s, "crop_avatar")
           ELSE IF int_raises(x) \/ int_raises(y) \/ int_raises(width) \/ int_raises(height)
           THEN /\ Respond(s, "crop_avatar", "json_fail_exception")
                /\ UNCHANGED <<users, posts, session, files, pc, loc>>
           ELSE /\ pc' = [pc EXCEPT ![s] = "crop_find"]
                /\ loc' = [loc EXCEPT ![s] =
                      [user_id |-> g_user.user_id, i |-> 1,
                       x |-> int_value(x, 0), y |-> int_value(y, 0),
                       width |-> int_value(width, DefaultCropSize),
                       height |-> int_value(height, DefaultCropSize)]]
                /\ UNCHANGED <<users, posts, session, files, resp>>

\* one turn of the loop over EXT_ORDER: os.path.exists(temp_path)
CropFind(s) ==
    /\ pc[s] = "crop_find"
    /\ LET temp_path == <<loc[s].user_id, EXT_ORDER[loc[s].i]>>
       IN  IF exists(temp_path)
           THEN /\ pc' = [pc EXCEPT ![s] = "crop_load"]
                /\ loc' = [loc EXCEPT ![s] =
                      [path |-> temp_path, width |-> loc[s].width,
                       height |-> loc[s].height]]
                /\ UNCHANGED resp
           ELSE IF loc[s].i < Len(EXT_ORDER)
           THEN /\ loc' = [loc EXCEPT ![s] = [@ EXCEPT !.i = loc[s].i + 1]]
                /\ UNCHANGED <<pc, resp>>
           ELSE /\ Respond(s, "crop_avatar", "json_fail_notfound")
                /\ EndRequest(s)
    /\ UNCHANGED <<users, posts, session, files>>

\* Image.open(avatar_path) and img.crop(...), which decodes the file.  A box
\* with right < left or lower < upper raises ValueError in crop, or gives an
\* image without pixels, by version; a box of no width or height gives an
\* image without pixels.
CropLoad(s) ==
    /\ pc[s] = "crop_load"
    /\ LET path == loc[s].path
           inverted == loc[s].width < 0 \/ loc[s].height < 0
       IN  \E crop_raises \in (IF inverted THEN BOOLEAN ELSE {FALSE}) :
               IF ~exists(path) \/ files[path].data = Partial \/ crop_raises
               THEN /\ Respond(s, "crop_avatar", "json_fail_exception")
                    /\ EndRequest(s)
               ELSE /\ pc' = [pc EXCEPT ![s] = "crop_open"]
                    /\ loc' = [loc EXCEPT ![s] =
                          [path |-> path,
                           img |-> [files[path].data EXCEPT !.cropped = TRUE],
                           empty |-> loc[s].width <= 0 \/ loc[s].height <= 0,
                           linked |-> TRUE]]
                    /\ UNCHANGED resp
    /\ UNCHANGED <<users, posts, session, files>>

CropOpen(s) ==
    /\ pc[s] = "crop_open"
    /\ SaveOpen(s, "crop_avatar", "crop_write")
    /\ UNCHANGED <<users, posts, session>>

CropWrite(s) ==
    /\ pc[s] = "crop_write"
    /\ WriteOut(s)
    /\ Respond(s, "crop_avatar", "json_ok")
    /\ EndRequest(s)
    /\ UNCHANGED <<users, posts, session>>

\* the loop of reset_avatar visiting only the first extension
ResetExts_first == <<PNG>>

ResetExts == <<PNG, JPG, JPEG>>

\* what follows the visit of extension i: the next one, or the response
ResetAdvance(s, base) ==
    IF loc[s].i < Len(ResetExts)
    THEN /\ pc' = [pc EXCEPT ![s] = "reset_check"]
         /\ loc' = [base EXCEPT ![s] = [@ EXCEPT !.i = loc[s].i + 1]]
         /\ UNCHANGED resp
    ELSE /\ Respond(s, "reset_avatar", IF loc[s].xhr THEN "json_ok" ELSE "redirect")
         /\ pc' = [pc EXCEPT ![s] = "idle"]
         /\ loc' = [base EXCEPT ![s] = None]

ResetAvatar(s, xhr) ==
    /\ Idle(s)
    /\ LET g_user == load_logged_in_user(s)
       IN  IF ~login_required(g_user)
           THEN Challenge(s, "reset_avatar")
           ELSE /\ pc' = [pc EXCEPT ![s] = "reset_check"]
                /\ loc' = [loc EXCEPT ![s] =
                      [user_id |-> g_user.user_id, i |-> 1, xhr |-> xhr]]
                /\ UNCHANGED <<users, posts, session, files, resp>>

\* os.path.exists(filepath) for extension i
ResetCheck(s) ==
    /\ pc[s] = "reset_check"
    /\ IF exists(<<loc[s].user_id, ResetExts[loc[s].i]>>)
       THEN /\ pc' = [pc EXCEPT ![s] = "reset_remove"]
            /\ UNCHANGED <<loc, resp>>
       ELSE ResetAdvance(s, loc)
    /\ UNCHANGED <<users, posts, session, files>>

\* os.remove(filepath) for extension i
ResetRemove(s) ==
    /\ pc[s] = "reset_remove"
    /\ LET path == <<loc[s].user_id, ResetExts[loc[s].i]>>
       IN  IF exists(path)
           THEN /\ files' = remove(path)
                /\ ResetAdvance(s, unlink_writers(path, s))
           ELSE /\ Respond(s, "reset_avatar", "fault")
                /\ EndRequest(s)
                /\ UNCHANGED files
    /\ UNCHANGED <<users, posts, session>>

-----------------------------------------------------------------------------
(* Initial state: the store after init-db, no cookie, no avatar file *)

Init ==
    /\ users = {}
    /\ posts = {}
    /\ session = [s \in Sessions |-> NoUser]
    /\ files = [p \in {} |-> None]
    /\ pc = [s \in Sessions |-> "idle"]
    /\ loc = [s \in Sessions |-> None]
    /\ resp = [sid |-> "none", op |-> "none", out |-> "none"]

Methods == {"GET", "POST"}
PostIds == 1..MaxPosts

-----------------------------------------------------------------------------
(* SpecAccounts: accounts, sessions and profiles.  The register requests   *)
(* of two browsers interleave between the existence check and the insert.  *)

Usernames == {<<>>, <<"a">>, <<"b">>}
Passwords == {<<>>, <<"p">>, <<"q">>}
Nicknames == {<<"\t", "a", " ">>, <<" ", "\n">>}
Bios == {<<"x", "\n">>}
Contacts == {<<>>}

NextAccounts ==
    \E s \in Sessions :
        \/ \E m \in Methods, u \in Usernames, p \in Passwords : BeginRegister(s, m, u, p)
        \/ RegisterInsert(s)
        \/ \E m \in Methods, u \in Usernames, p \in Passwords : Login(s, m, u, p)
        \/ Logout(s)
        \/ Profile(s)
        \/ \E m \in Methods, n \in Nicknames, b \in Bios, c \in Contacts :
               EditProfile(s, m, n, b, c)
        \/ \E u \in Usernames : UserProfile(s, u)
        \/ \E n \in Nicknames : CheckNickname(s, n)

SpecAccounts == Init /\ [][NextAccounts]_vars

-----------------------------------------------------------------------------
(* SpecPosts: two authors with a browser each and their posts; the code    *)
(* takes no lock and opens no transaction around a view, so the requests  *)
(* of the two browsers interleave statement by statement                  *)

Authors == {<<"a">>, <<"b">>}
AuthorPasswords == {<<"p">>}
NewTitles == {<<>>, <<"t">>}
NewBodies == {<<"b">>}
EditTitles == {<<>>, <<"u">>}
EditBodies == {<<>>}

NextPosts ==
    \E s \in Sessions :
        \/ \E u \in Authors, p \in AuthorPasswords : BeginRegister(s, "POST", u, p)
        \/ RegisterInsert(s)
        \/ \E u \in Authors, p \in AuthorPasswords : Login(s, "POST", u, p)
        \/ Logout(s)
        \/ \E m \in Methods, t \in NewTitles, b \in NewBodies : Create(s, m, t, b)
        \/ \E m \in Methods, id \in PostIds, t \in EditTitles, b \in EditBodies :
               Update(s, m, id, t, b)
        \/ UpdateWrite(s)
        \/ \E id \in PostIds : Delete(s, id)
        \/ DeleteWrite(s)

SpecPosts == Init /\ [][NextPosts]_vars

-----------------------------------------------------------------------------
(* SpecAvatar: the avatar files of a user with one browser, so that one   *)
(* request runs at a time                                                 *)

SmallBytes == 4 * 1024
BigBytes == 3 * 1024 * 1024

Upload(filename, content_length, size, image) ==
    [present |-> TRUE, filename |-> filename, content_length |-> content_length,
     size |-> size, image |-> image]

NoUpload ==
    [present |-> FALSE, filename |-> <<>>, content_length |-> 0, size |-> 0, image |-> Bad]

AvatarUploads ==
    { NoUpload,
      Upload(<<>>, 0, SmallBytes, Image("RGB")),
      Upload(<<"a", ".", "P", "N", "G">>, 0, SmallBytes, Image("RGBA")),
      Upload(<<"a", ".", "p", "n", "g">>, 0, BigBytes, Image("RGBA")),
      Upload(<<"a", ".", "p", "n", "g">>, BigBytes, BigBytes, Image("RGBA")),
      Upload(<<"a", ".", "p", "n", "g">>, 0, SmallBytes, Bad),
      Upload(<<"a", ".", "j", "p", "g">>, SmallBytes, SmallBytes, Image("RGBA")),
      Upload(<<"a", " ", "b", ".", "j", "p", "g">>, 0, SmallBytes, Image("P")),
      Upload(<<"a", ".", "J", "P", "E", "G">>, 0, SmallBytes, Image("RGB")),
      Upload(<<"a", ".", "j", "p", "e", "g">>, 0, SmallBytes, Image("P")),
      Upload(<<"a", ".", "G", "I", "F">>, 0, SmallBytes, Image("RGB")),
      Upload(<<".", "p", "n", "g">>, 0, SmallBytes, Image("RGB")) }

CropOffsets == {Missing, <<" ", "-", "1", "_", "0">>, <<"x">>, <<"", "1">>}

\* one digit more than int() converts
LongDigits == [i \in 1..(MaxStrDigits + 1) |-> "1"]

\* the x and width fields of the crop forms sent
CropForms ==
    { <<Missing, Missing>>,
      <<LongDigits, Missing>>,
      <<<<" ", "-", "1", "_", "0">>, <<"0">>>>,
      <<Missing, <<"-", "1">>>>,
      <<<<"x">>, Missing>>,
      <<Missing, <<"3", "">>>> }

Owners == {<<"a">>}
OwnerPasswords == {<<"p">>}
AvatarSessions == {"s1"}

NextAvatar ==
    \E s \in AvatarSessions :
        \/ \E u \in Owners, p \in OwnerPasswords : BeginRegister(s, "POST", u, p)
        \/ RegisterInsert(s)
        \/ \E u \in Owners, p \in OwnerPasswords : Login(s, "POST", u, p)
        \/ Logout(s)
        \/ \E f \in AvatarUploads : UploadAvatar(s, f)
        \/ UploadOpen(s)
        \/ UploadWrite(s)
        \/ \E f \in CropForms : CropAvatar(s, f[1], Missing, f[2], Missing)
        \/ CropFind(s)
        \/ CropLoad(s)
        \/ CropOpen(s)
        \/ CropWrite(s)
        \/ \E xhr \in BOOLEAN : ResetAvatar(s, xhr)
        \/ ResetCheck(s)
        \/ ResetRemove(s)

SpecAvatar == Init /\ [][NextAvatar]_vars

-----------------------------------------------------------------------------
(* SpecReset: the avatar files of two users who share one browser, their  *)
(* uploads and resets one at a time                                       *)

ResetOwners == {<<"a">>, <<"b">>}

ResetUploads ==
    { Upload(<<"a", ".", "p", "n", "g">>, 0, SmallBytes, Image("RGBA")),
      Upload(<<"a", ".", "j", "p", "g">>, 0, SmallBytes, Image("RGB")),
      Upload(<<"a", ".", "j", "p", "e", "g">>, 0, SmallBytes, Image("RGB")) }

NextReset ==
    \E s \in AvatarSessions :
        \/ \E u \in ResetOwners, p \in OwnerPasswords : BeginRegister(s, "POST", u, p)
        \/ RegisterInsert(s)
        \/ \E u \in ResetOwners, p \in OwnerPasswords : Login(s, "POST", u, p)
        \/ Logout(s)
        \/ \E f \in ResetUploads : UploadAvatar(s, f)
        \/ UploadOpen(s)
        \/ UploadWrite(s)
        \/ \E xhr \in BOOLEAN : ResetAvatar(s, xhr)
        \/ ResetCheck(s)
        \/ ResetRemove(s)

SpecReset == Init /\ [][NextReset]_vars

-----------------------------------------------------------------------------
(* SpecRace: one user in two browsers, the avatar requests interleaved at  *)
(* every file-system call                                                  *)

RaceUploads ==
    { Upload(<<"a", ".", "p", "n", "g">>, 0, SmallBytes, Image("RGB")),
      Upload(<<"a", ".", "j", "p", "g">>, 0, SmallBytes, Image("RGB")) }

NextRace ==
    \E s \in Sessions :
        \/ BeginRegister(s, "POST", <<"a">>, <<"p">>)
        \/ RegisterInsert(s)
        \/ Login(s, "POST", <<"a">>, <<"p">>)
        \/ Logout(s)
        \/ \E f \in RaceUploads : UploadAvatar(s, f)
        \/ UploadOpen(s)
        \/ UploadWrite(s)
        \/ CropAvatar(s, Missing, Missing, Missing, Missing)
        \/ CropFind(s)
        \/ CropLoad(s)
        \/ CropOpen(s)
        \/ CropWrite(s)
        \/ ResetAvatar(s, TRUE)
        \/ ResetCheck(s)
        \/ ResetRemove(s)

SpecRace == Init /\ [][NextRace]_vars

-----------------------------------------------------------------------------
(* SpecApp: every handler of the application, from one browser *)

AppUploads ==
    { NoUpload,
      Upload(<<"a", ".", "p", "n", "g">>, 0, SmallBytes, Image("RGB")),
      Upload(<<"a", ".", "g", "i", "f">>, 0, SmallBytes, Image("RGB")) }

AppNames == {<<"a">>}
AppPasswords == {<<"p">>}
AppNicknames == {<<"a", "\t">>, <<"c">>}
AppSessions == {"s1"}

NextApp ==
    \E s \in AppSessions :
        \/ \E m \in Methods, u \in AppNames, p \in AppPasswords : BeginRegister(s, m, u, p)
        \/ RegisterInsert(s)
        \/ \E m \in Methods, u \in AppNames, p \in AppPasswords : Login(s, m, u, p)
        \/ Logout(s)
        \/ \E m \in Methods, t \in NewTitles, b \in NewBodies : Create(s, m, t, b)
        \/ \E m \in Methods, id \in PostIds, t \in EditTitles, b \in EditBodies :
               Update(s, m, id, t, b)
        \/ UpdateWrite(s)
        \/ \E id \in PostIds : Delete(s, id)
        \/ DeleteWrite(s)
        \/ Profile(s)
        \/ \E m \in Methods, n \in AppNicknames, b \in Bios, c \in Contacts :
               EditProfile(s, m, n, b, c)
        \/ \E u \in AppNames : UserProfile(s, u)
        \/ \E id \in PostIds : PostDetail(s, id)
        \/ \E n \in AppNicknames : CheckNickname(s, n)
        \/ \E f \in AppUploads : UploadAvatar(s, f)
        \/ UploadOpen(s)
        \/ UploadWrite(s)
        \/ \E x \in CropOffsets : CropAvatar(s, x, Missing, Missing, Missing)
        \/ CropFind(s)
        \/ CropLoad(s)
        \/ CropOpen(s)
        \/ CropWrite(s)
        \/ \E xhr \in BOOLEAN : ResetAvatar(s, xhr)
        \/ ResetCheck(s)
        \/ ResetRemove(s)

SpecApp == Init /\ [][NextApp]_vars

-----------------------------------------------------------------------------
(* Claims *)

Anonymous(s) ==
    session[s] = NoUser \/ ~\E r \in users : r.user_id = session[s]

PostWithId(id) == {p \in posts : p.id = id}

\* C1 witness: a logged-in user who is not the author of a post was answered
\* 403 on an update or delete of it, after the author's own update of that
\* post had been applied
ForbiddenSeen ==
    /\ resp.out = "403"
    /\ resp.op \in {"update", "delete"}
    /\ ~Anonymous(resp.sid)
    /\ \E p \in posts : /\ p.author_id # session[resp.sid]
                        /\ p.title \in EditTitles \ NewTitles

\* what every step of update or delete run for s does when it changes the
\* state: it answers s for that view or goes on to the write
StepOf(s) ==
    \/ resp' # resp /\ resp'.sid = s /\ resp'.op \in {"update", "delete"}
    \/ pc'[s] # pc[s] /\ pc'[s] \in {"update_write", "delete_write"}

\* C1: in every interleaving of the requests of two browsers, (a) an update
\* or delete of an existing post requested by a logged-in user who is not its
\* author is answered 403, ends there and leaves the table unchanged; (b) the
\* author's update with a non-empty title and the author's delete pass the
\* ownership check and go on to the write, the table unchanged and the post
\* still the author's in the state the check leaves; (c) the write answers
\* with the redirect, changes exactly the row of that id (title and body
\* replaced, or the row removed) whenever that post is the requesting user's,
\* as it is when the write follows its check directly, and changes nothing
\* when no post has that id
OwnershipEnforced ==
    [][\A s \in Sessions :
         /\ (StepOf(s) /\ Idle(s) /\ ~Anonymous(s)) =>
              \A id \in PostIds :
                \A p \in PostWithId(id) :
                  /\ p.author_id # session[s] =>
                       /\ \A m \in Methods, t \in EditTitles, b \in EditBodies :
                            Update(s, m, id, t, b)
                              => /\ resp' = [sid |-> s, op |-> "update", out |-> "403"]
                                 /\ posts' = posts
                                 /\ Idle(s)'
                       /\ Delete(s, id)
                            => /\ resp' = [sid |-> s, op |-> "delete", out |-> "403"]
                               /\ posts' = posts
                               /\ Idle(s)'
                  /\ p.author_id = session[s] =>
                       /\ \A t \in EditTitles \ {<<>>}, b \in EditBodies :
                            Update(s, "POST", id, t, b)
                              => /\ pc'[s] = "update_write"
                                 /\ loc'[s] = [id |-> id, title |-> t, body |-> b]
                                 /\ posts' = posts
                                 /\ session'[s] = p.author_id
                       /\ Delete(s, id)
                            => /\ pc'[s] = "delete_write"
                               /\ loc'[s] = [id |-> id]
                               /\ posts' = posts
                               /\ session'[s] = p.author_id
         /\ (pc[s] \in {"update_write", "delete_write"} /\ pc'[s] # pc[s]) =>
              /\ Idle(s)'
              /\ resp' = [sid |-> s,
                          op |-> IF pc[s] = "update_write" THEN "update" ELSE "delete",
                          out |-> "redirect"]
              /\ PostWithId(loc[s].id) = {} => posts' = posts
              /\ \A p \in PostWithId(loc[s].id) :
                   p.author_id = session[s] =>
                     posts' = IF pc[s] = "update_write"
                              THEN (posts \ {p})
                                     \cup {PostRow(p.id, loc[s].title, loc[s].body,
                                                   p.author_id)}
                              ELSE posts \ {p}
      ]_vars

\* C2 witness: an anonymous request to a protected handler was answered with
\* the redirect to the login page while a user and a post exist
ChallengeSeen ==
    /\ resp.out = "login_redirect"
    /\ resp.op = "delete"
    /\ Anonymous(resp.sid)
    /\ users # {}
    /\ posts # {}

\* C2: a request to a protected handler from a session with no user_id, or
\* with a user_id that has no row, is answered with the redirect to the login
\* page, starts nothing and leaves users, posts and avatar files unchanged
GateShortCircuits ==
    [][\A s \in AppSessions :
         (/\ Anonymous(s)
          /\ resp'.sid = s
          /\ \/ \E m \in Methods, t \in NewTitles, b \in NewBodies : Create(s, m, t, b)
             \/ \E m \in Methods, id \in PostIds, t \in EditTitles, b \in EditBodies :
                    Update(s, m, id, t, b)
             \/ \E id \in PostIds : Delete(s, id)
             \/ Profile(s)
             \/ \E m \in Methods, n \in AppNicknames, b \in Bios, c \in Contacts :
                    EditProfile(s, m, n, b, c)
             \/ \E n \in AppNicknames : CheckNickname(s, n)
             \/ \E f \in AppUploads : UploadAvatar(s, f)
             \/ \E x \in CropOffsets : CropAvatar(s, x, Missing, Missing, Missing)
             \/ \E xhr \in BOOLEAN : ResetAvatar(s, xhr))
         => /\ resp'.out = "login_redirect"
            /\ resp'.sid = s
            /\ pc'[s] = "idle"
            /\ UNCHANGED <<users, posts, files, session>>
      ]_vars

LoginFailed(s) ==
    /\ resp'.sid = s
    /\ resp'.out \in {"flash_incorrect_username", "flash_incorrect_password"}
    /\ \E u \in Usernames, p \in Passwords : Login(s, "POST", u, p)

\* a successful login of session s leaves it holding the user of the
\* credentials given
LoginSetsIdentity(s) ==
    \A u \in Usernames, p \in Passwords :
        (/\ resp'.sid = s
         /\ resp'.op = "login"
         /\ \E r \in users : r.username = u /\ check_password_hash(r.password, p)
         /\ Login(s, "POST", u, p))
        => \E r \in users :
               /\ r.username = u
               /\ check_password_hash(r.password, p)
               /\ session'[s] = r.user_id
               /\ resp'.out = "redirect"

\* a session comes to hold a user only by a login with that user's name and
\* password
IdentityOnlyByLogin(s) ==
    (session'[s] # session[s] /\ session'[s] # NoUser)
    => \E u \in Usernames, p \in Passwords, r \in users :
           /\ Login(s, "POST", u, p)
           /\ r.user_id = session'[s]
           /\ r.username = u
           /\ check_password_hash(r.password, p)

\* C3 as stated: a failed login leaves the session anonymous whatever it held
FailedLoginClearsSession ==
    [][\A s \in Sessions :
         /\ LoginSetsIdentity(s)
         /\ IdentityOnlyByLogin(s)
         /\ (resp'.op = "logout" /\ Logout(s)) => session'[s] = NoUser
         /\ LoginFailed(s) => session'[s] = NoUser
      ]_vars

\* C3 witness: a login with a wrong password was refused in a session that
\* holds a user
FailedLoginWhileLoggedIn ==
    /\ resp.op = "login"
    /\ resp.out = "flash_incorrect_password"
    /\ session[resp.sid] # NoUser

\* C3 amended: a correct login sets the session to that user, a logout
\* clears it, a failed login leaves it as it was, and a session comes to hold
\* a user only by a login with that user's name and password
FailedLoginKeepsSession ==
    [][\A s \in Sessions :
         /\ LoginSetsIdentity(s)
         /\ IdentityOnlyByLogin(s)
         /\ (resp'.op = "logout" /\ Logout(s)) => session'[s] = NoUser
         /\ LoginFailed(s) => session'[s] = session[s]
         /\ (session'[s] # session[s] /\ session'[s] = NoUser) => Logout(s)
      ]_vars

\* C4 witness: an edit_profile to the name of another user was refused
DuplicateRenameRefused ==
    /\ resp.op = "edit_profile"
    /\ resp.out = "fault"
    /\ Cardinality(users) = 2

\* C4: no two rows of users share a username, none share a user_id
UsernamesUnique ==
    \A r1 \in users, r2 \in users :
        (r1.username = r2.username \/ r1.user_id = r2.user_id) => r1 = r2

\* C5 witness: the insert of a register request lost the race against
\* another register of the same name and was answered with the message
RegisterRaceLost ==
    /\ resp.op = "register"
    /\ resp.out = "flash_already_registered"
    /\ \E r \in users : TRUE

\* C5: the insert of a register request for a free name adds exactly one
\* row, with that name; for a name taken meanwhile it adds none and answers
\* with the already-registered message; a register request for a name taken
\* before it starts adds none and answers with the already-exists message
RegisterOnce ==
    [][\A s \in Sessions :
         /\ RegisterInsert(s) =>
              IF \E r \in users : r.username = loc[s].username
              THEN users' = users /\ resp'.out = "flash_already_registered"
              ELSE /\ \E row \in users' :
                         /\ row \notin users
                         /\ row.username = loc[s].username
                         /\ users' = users \cup {row}
                   /\ resp'.out = "redirect"
         /\ \A u \in Usernames \ {<<>>}, p \in Passwords \ {<<>>} :
              (/\ resp'.sid = s
               /\ resp'.op = "register"
               /\ \E r \in users : r.username = u
               /\ BeginRegister(s, "POST", u, p))
              => /\ users' = users
                 /\ pc'[s] = "idle"
                 /\ resp'.out = "flash_username_exists"
      ]_vars

AvatarExtsOf(user_id) == {e \in {PNG, JPG, JPEG} : exists(<<user_id, e>>)}

\* C6: between requests, with every file written out, each user has at
\* most one avatar file among <user_id>.png, <user_id>.jpg, <user_id>.jpeg
AtMostOneAvatar ==
    (/\ \A s \in Sessions : Idle(s)
     /\ \A p \in DOMAIN files : files[p].data # Partial)
    => \A u \in users : Cardinality(AvatarExtsOf(u.user_id)) <= 1

\* C7: no request ends in an unhandled fault
NoUnhandledFault == resp.out # "fault"

\* C8: no avatar path ever holds a file that is not a complete image
NoPartialFileVisible ==
    \A p \in DOMAIN files : files[p].data # Partial

UploadRejected(s) ==
    /\ resp'.op = "upload_avatar"
    /\ resp'.out \in {"json_fail_nofile", "json_fail_format", "json_fail_size",
                      "json_fail_exception"}
    /\ pc'[s] = "idle"
    /\ files' = files

\* C9: an upload by a logged-in user of a file of more than 2 MiB, or with an
\* extension other than jpg, jpeg, png, is rejected and changes no file
OversizeOrBadTypeRejected ==
    [][\A s \in AvatarSessions, f \in AvatarUploads :
         (/\ ~Anonymous(s)
          /\ f.present
          /\ f.filename # <<>>
          /\ \/ f.size > MaxAvatarBytes
             \/ lower(splitext_ext(f.filename)) \notin {PNG, JPG, JPEG}
          /\ UploadAvatar(s, f))
         => UploadRejected(s)
      ]_vars

Resetting(s) == pc[s] \in {"reset_check", "reset_remove"}

\* C10 witness: a second reset, started right after a reset that succeeded,
\* has reached its last extension while another user has an avatar file
SecondResetRuns ==
    \E s \in Sessions :
        /\ Resetting(s)
        /\ loc[s].i = 3
        /\ resp.op = "reset_avatar"
        /\ resp.out \in {"json_ok", "redirect"}
        /\ \E p \in DOMAIN files : p[1] # loc[s].user_id

\* C10: every reset by a logged-in user, with or without avatar files, ends
\* in success with none of the three files of that user left; no step of it
\* touches a file of another user
ResetIdempotent ==
    [][\A s \in Sessions :
         Resetting(s) =>
           /\ (pc'[s] = "idle") =>
                /\ resp'.sid = s
                /\ resp'.op = "reset_avatar"
                /\ resp'.out \in {"json_ok", "redirect"}
                /\ \A e \in {PNG, JPG, JPEG} : <<loc[s].user_id, e>> \notin DOMAIN files'
           /\ \A p \in DOMAIN files :
                p[1] # loc[s].user_id => (p \in DOMAIN files' /\ files'[p] = files[p])
           /\ DOMAIN files' \subseteq DOMAIN files
      ]_vars

====
